---- MODULE Spec2Model ----
(***************************************************************************)
(* konfetty: the recursive default-merging engine (defaults.go) and the    *)
(* registry it reads (Processor.WithDefaults in konfetty.go).              *)
(*                                                                         *)
(* Go values are modelled with the memory they live in.  A value is a      *)
(* record [k, t, n, f]: k its reflect.Kind, t its reflect.Type, n a scalar *)
(* or an address (0 = nil) and f its fields (struct) or its dynamic value  *)
(* (interface, empty = nil).  The heap maps addresses to cells: a variable *)
(* (the target of a pointer), the backing array of a slice, or a map.      *)
(* A reflect.Value that denotes a place is a location [a, p, ro, na]:      *)
(* cell a, path p into it, ro = reached through an unexported field        *)
(* (flagRO), na = not addressable.                                         *)
(*                                                                         *)
(* Spec drives applyDefaults directly, as the package's tests do.          *)
(* BuildSpec drives it through Processor.Build: a source, optional         *)
(* transformer and validator, and the stages Builder.build runs.           *)
(* SharedSpec runs two applyDefaults calls of two callers on two graphs    *)
(* with one registry; each call is one step, in either order.              *)
(***************************************************************************)
EXTENDS Integers, Sequences, FiniteSets, TLC

VARIABLES heap, defaults, root, err, calls, pre,
          source, transform, validate, trace, result, other, limit

vars == <<heap, defaults, root, err, calls, pre,
          source, transform, validate, trace, result, other, limit>>

\* ------------------------------------------------------------- bounds
MaxAddr == 24      \* heap addresses 1..MaxAddr
MaxDepth == 10     \* recursion depth at which the goroutine stack is taken to overflow
MaxDefaults == 3   \* registered defaults
MaxCalls == 2      \* applyDefaults calls per behaviour
maxDepth == 3      \* the largest depth limit handed to fillDefaults (100 in the package)

Addrs == 1..MaxAddr
Keys == {1, 2}   \* the keys of the maps

\* ------------------------------------------------------------- values
IntV(n) == [k |-> "int", t |-> "int", n |-> n, f |-> <<>>]
StructV(t, fs) == [k |-> "struct", t |-> t, n |-> 0, f |-> fs]
PtrV(t, a) == [k |-> "ptr", t |-> t, n |-> a, f |-> <<>>]
SliceV(t, a) == [k |-> "slice", t |-> t, n |-> a, f |-> <<>>]
MapV(t, a) == [k |-> "map", t |-> t, n |-> a, f |-> <<>>]
NilIface(t) == [k |-> "iface", t |-> t, n |-> 0, f |-> <<>>]
Iface(t, dyn) == [k |-> "iface", t |-> t, n |-> 0, f |-> <<dyn>>]

\* ------------------------------------------------------------- heap cells
FreeCell == [c |-> "free", v |-> <<>>, m |-> <<>>]
VarCell(val) == [c |-> "var", v |-> <<val>>, m |-> <<>>]
ArrCell(vals) == [c |-> "array", v |-> vals, m |-> <<>>]
\* a map cell holds one slot per key: <<>> (absent) or <<value>>
MapCell(slots) == [c |-> "map", v |-> <<>>, m |-> slots]
EmptySlots == [x \in Keys |-> <<>>]

\* reflect.Type.Field(i).IsExported(): the struct types with a private field
FieldExported(t, i) ==
    CASE t = "Priv" /\ i \in {1, 2, 3} -> FALSE
      [] OTHER -> TRUE

\* ------------------------------------------------------------- places
Loc(a, p, ro, na) == [a |-> a, p |-> p, ro |-> ro, na |-> na]

RECURSIVE GetIn(_, _)
GetIn(val, path) ==
    IF path = <<>> THEN val ELSE GetIn(val.f[Head(path)], Tail(path))

RECURSIVE PutIn(_, _, _)
PutIn(val, path, new) ==
    IF path = <<>> THEN new
    ELSE [val EXCEPT !.f[Head(path)] = PutIn(@, Tail(path), new)]

\* the value at a place, and the heap with a value stored at a place
Get(h, loc) == GetIn(h[loc.a].v[loc.p[1]], Tail(loc.p))
Put(h, loc, new) == [h EXCEPT ![loc.a].v[loc.p[1]] = PutIn(@, Tail(loc.p), new)]

\* reflect.Value.Field(i): flagRO is inherited and set by an unexported field
LocField(loc, t, i) == Loc(loc.a, Append(loc.p, i), loc.ro \/ ~FieldExported(t, i), loc.na)
\* reflect.Value.Elem() of a non-nil pointer: addressable, flagRO inherited
LocElem(loc, pv) == Loc(pv.n, <<1>>, loc.ro, FALSE)
\* reflect.Value.CanSet()
Settable(loc) == ~loc.ro /\ ~loc.na

\* reflect.New / reflect.MakeMap: the allocator hands out the lowest free cell
Alloc(h) == CHOOSE a \in Addrs : h[a].c = "free" /\ \A b \in 1..(a - 1) : h[b].c # "free"

\* the source of a merge: a value boxed in the registry (a = 0, read-only copy v)
\* or memory reached from it through a pointer (a # 0)
SrcBoxed(val) == [a |-> 0, p |-> <<>>, v |-> val]
SrcGet(h, s) == IF s.a = 0 THEN GetIn(s.v, s.p) ELSE GetIn(h[s.a].v[s.p[1]], Tail(s.p))
SrcField(s, i) == [s EXCEPT !.p = Append(@, i)]
SrcElem(pv) == [a |-> pv.n, p |-> <<1>>, v |-> IntV(0)]

\* the walker's state: heap, visited set, key order of map iteration, outcome
Outcome(h, vis, ord, e) == [h |-> h, vis |-> vis, ord |-> ord, err |-> e]
Fail(st, e) == [st EXCEPT !.err = e]

RECURSIVE IsZero(_)
\* reflect.Value.IsZero
IsZero(val) ==
    CASE val.k = "struct" -> \A i \in 1..Len(val.f) : IsZero(val.f[i])
      [] val.k = "iface" -> val.f = <<>>
      [] OTHER -> val.n = 0

RECURSIVE ZeroOf(_)
\* reflect.Zero of the type of val
ZeroOf(val) ==
    CASE val.k = "struct" -> [val EXCEPT !.f = [i \in 1..Len(val.f) |-> ZeroOf(val.f[i])]]
      [] val.k = "iface" -> [val EXCEPT !.f = <<>>]
      [] OTHER -> [val EXCEPT !.n = 0]

\* the registry's entries for a type: defaults[t] of a Go map
Lookup(D, t) == IF t \in DOMAIN D THEN D[t] ELSE <<>>

\* ------------------------------------------------------------- field-level merge
\* SetMapIndex for every key of src, present in the map cell at a or not
AddAbsent_overwrite(h, a, srcSlots) ==
    [x \in Keys |-> IF srcSlots[x] # <<>> THEN srcSlots[x] ELSE h[a].m[x]]

\* reflect.Value.SetMapIndex for every key of src absent from the map cell at a:
\* the cell's slots afterwards
AddAbsent(h, a, srcSlots) ==
    [x \in Keys |-> IF h[a].m[x] = <<>> THEN srcSlots[x] ELSE h[a].m[x]]

\* reflect.Type.AssignableTo as dst.Set(src) tests it: the same type, or an
\* interface destination (the interfaces here are empty ones)
AssignableTo(sv, dv) == dv.k = "iface" \/ (sv.k = dv.k /\ sv.t = dv.t)
\* the kinds reflect.Value.IsNil accepts; it panics on the others
Nilable(val) == val.k \in {"ptr", "slice", "map", "iface"}

\* the slots of the map a value denotes (a nil map has no keys)
SlotsOf(h, mv) == IF mv.n = 0 THEN EmptySlots ELSE h[mv.n].m

RECURSIVE mergeDefault(_, _, _, _)
RECURSIVE mergeFields(_, _, _, _, _)
RECURSIVE mergeField(_, _, _, _, _)
RECURSIVE mergePtrField(_, _, _, _)

\* setField: a nil map receives a fresh map with the default's entries,
\* everything else is assigned as it is (dst.Set(src))
setField(dst, src, st) ==
    LET sv == SrcGet(st.h, src)
        dv == Get(st.h, dst)
    IN  IF ~Settable(dst) THEN Fail(st, "panic")
        ELSE IF sv.k = "map" /\ ~Nilable(dv) THEN Fail(st, "panic")
        ELSE IF ~AssignableTo(sv, dv) THEN Fail(st, "panic")
        ELSE IF sv.k = "map" /\ dv.n = 0
        THEN LET a == Alloc(st.h)
                 h1 == [st.h EXCEPT ![a] = MapCell(SlotsOf(st.h, sv))]
             IN  [st EXCEPT !.h = Put(h1, dst, MapV(sv.t, a))]
        ELSE [st EXCEPT !.h = Put(st.h, dst, sv)]

\* mergeMapField: keys of the default absent from the live map are added;
\* dst.IsNil and dst.MapIndex panic on a destination of another kind, and
\* MapIndex on a map of another type (its key type differs)
mergeMapField(dst, src, st) ==
    LET sv == SrcGet(st.h, src)
        dv == Get(st.h, dst)
        new == AddAbsent(st.h, dv.n, SlotsOf(st.h, sv))
    IN  IF ~Nilable(dv) THEN Fail(st, "panic")
        ELSE IF IsZero(dv) THEN st
        ELSE IF dv.k # "map" \/ dv.t # sv.t
        THEN IF SlotsOf(st.h, sv) = EmptySlots THEN st ELSE Fail(st, "panic")
        ELSE IF new = st.h[dv.n].m THEN st
        ELSE IF dst.ro THEN Fail(st, "panic")
        ELSE [st EXCEPT !.h[dv.n].m = new]

\* mergeDefault: both sides are dereferenced once, then merged field by field
mergeDefault(dst, src, st, dep) ==
    LET dv == Get(st.h, dst)
        sv == SrcGet(st.h, src)
    IN  IF dep > MaxDepth THEN Fail(st, "overflow")
        ELSE IF (dv.k = "ptr" /\ dv.n = 0) \/ (sv.k = "ptr" /\ sv.n = 0) THEN st
        ELSE LET d2 == IF dv.k = "ptr" THEN LocElem(dst, dv) ELSE dst
                 s2 == IF sv.k = "ptr" THEN SrcElem(sv) ELSE src
             IN  IF SrcGet(st.h, s2).k # "struct" \/ Get(st.h, d2).k # "struct" THEN st
                 ELSE mergeFields(d2, s2, 1, st, dep)

\* the loop of mergeDefault over src.NumField()
mergeFields(dst, src, i, st, dep) ==
    LET t == Get(st.h, dst).t
    IN  IF st.err # "nil" \/ i > Len(SrcGet(st.h, src).f) THEN st
        ELSE IF i > Len(Get(st.h, dst).f) THEN Fail(st, "panic")
        ELSE mergeFields(dst, src, i + 1,
                         mergeField(LocField(dst, t, i), SrcField(src, i),
                                    FieldExported(t, i), st, dep), dep)

\* mergeField without the test for a zero destination: the default is assigned
\* over whatever the field holds
mergeField_overwrite(dst, src, exported, st, dep) ==
    IF ~exported THEN st ELSE setField(dst, src, st)

\* mergeField that takes a sequence of length 0 for a zero field
mergeField_emptyIsZero(dst, src, exported, st, dep) ==
    LET sv == SrcGet(st.h, src)
        dv == Get(st.h, dst)
    IN  IF ~exported THEN st
        ELSE IF IsZero(dv) \/ (dv.k = "slice" /\ dv.n # 0 /\ st.h[dv.n].v = <<>>)
        THEN setField(dst, src, st)
        ELSE CASE sv.k = "struct" -> mergeDefault(dst, src, st, dep + 1)
               [] sv.k = "ptr" -> mergePtrField(dst, src, st, dep)
               [] sv.k = "map" -> mergeMapField(dst, src, st)
               [] OTHER -> st

\* mergeField: a zero field takes the default's, a non-zero record, reference
\* or map is merged into
mergeField(dst, src, exported, st, dep) ==
    LET sv == SrcGet(st.h, src)
    IN  IF ~exported THEN st
        ELSE IF IsZero(Get(st.h, dst)) THEN setField(dst, src, st)
        ELSE CASE sv.k = "struct" -> mergeDefault(dst, src, st, dep + 1)
               [] sv.k = "ptr" -> mergePtrField(dst, src, st, dep)
               [] sv.k = "map" -> mergeMapField(dst, src, st)
               [] OTHER -> st

\* mergePtrField: merge the default's referent into the live referent;
\* dst.IsNil panics on a destination that cannot be nil, dst.Set and dst.Elem
\* on a sequence or map, and the Elem of an interface is its unsettable content
mergePtrField(dst, src, st, dep) ==
    LET sv == SrcGet(st.h, src)
        dv == Get(st.h, dst)
        tmp == Alloc(st.h)
        boxed == mergeDefault(Loc(tmp, <<1>>, dst.ro, TRUE), SrcElem(sv),
                              [st EXCEPT !.h[tmp] = VarCell(dv.f[1])], dep + 1)
    IN  IF sv.n = 0 THEN st
        ELSE IF SrcGet(st.h, SrcElem(sv)).k # "struct" THEN st
        ELSE IF ~Nilable(dv) \/ dv.k \in {"slice", "map"} THEN Fail(st, "panic")
        ELSE IF dv.k = "iface"
        THEN IF dv.f = <<>> THEN Fail(st, "panic") ELSE [boxed EXCEPT !.h[tmp] = FreeCell]
        ELSE IF dv.n = 0
        THEN IF ~Settable(dst) \/ dv.t # sv.t THEN Fail(st, "panic")
             ELSE LET a == Alloc(st.h)
                      h1 == [st.h EXCEPT ![a] = VarCell(ZeroOf(SrcGet(st.h, SrcElem(sv))))]
                      s1 == [st EXCEPT !.h = Put(h1, dst, PtrV(dv.t, a))]
                  IN  mergeDefault(LocElem(dst, PtrV(dv.t, a)), SrcElem(sv), s1, dep + 1)
        ELSE mergeDefault(LocElem(dst, dv), SrcElem(sv), st, dep + 1)

\* ------------------------------------------------------------- the walker
\* checkCircularReference: every pointer met, nil included (Pointer() = 0),
\* is looked up in and added to the visited set
checkCircularReference(loc, st) ==
    LET v == Get(st.h, loc)
    IN  IF v.k # "ptr" THEN st
        ELSE IF v.n \in st.vis THEN Fail(st, "ErrCircularReference")
        ELSE [st EXCEPT !.vis = @ \cup {v.n}]

RECURSIVE applyTypeDefaultsFrom(_, _, _, _, _)
\* the loop of applyTypeDefaults, from index i down to the first entry
applyTypeDefaultsFrom(loc, typeDefaults, i, st, dep) ==
    IF st.err # "nil" \/ i < 1 THEN st
    ELSE applyTypeDefaultsFrom(loc, typeDefaults, i - 1,
                               mergeDefault(loc, SrcBoxed(typeDefaults[i]), st, dep), dep)

RECURSIVE applyTypeDefaultsUp(_, _, _, _, _)
\* the entries applied from index i up to the last
applyTypeDefaultsUp(loc, typeDefaults, i, st, dep) ==
    IF st.err # "nil" \/ i > Len(typeDefaults) THEN st
    ELSE applyTypeDefaultsUp(loc, typeDefaults, i + 1,
                             mergeDefault(loc, SrcBoxed(typeDefaults[i]), st, dep), dep)

\* applyTypeDefaults in registration order: the first registered default wins
applyTypeDefaults_forward(loc, typeDefaults, st, dep) ==
    applyTypeDefaultsUp(loc, typeDefaults, 1, st, dep)

\* applyTypeDefaults: the entries of the node's type, last registered first
applyTypeDefaults(loc, typeDefaults, st, dep) ==
    applyTypeDefaultsFrom(loc, typeDefaults, Len(typeDefaults), st, dep)

RECURSIVE applyMapDefaultsFrom(_, _, _, _)
\* the loop of applyMapDefaults, from entry i up to the last; MapKeys panics
\* on an entry that is no map, MapIndex on a key of a map of another type
applyMapDefaultsFrom(loc, defaultValues, i, st) ==
    LET a == Get(st.h, loc).n
        new == AddAbsent(st.h, a, SlotsOf(st.h, defaultValues[i]))
    IN  IF st.err # "nil" \/ i > Len(defaultValues) THEN st
        ELSE IF defaultValues[i].k # "map" THEN Fail(st, "panic")
        ELSE IF defaultValues[i].t # Get(st.h, loc).t
        THEN IF SlotsOf(st.h, defaultValues[i]) = EmptySlots
             THEN applyMapDefaultsFrom(loc, defaultValues, i + 1, st)
             ELSE Fail(st, "panic")
        ELSE IF new = st.h[a].m THEN applyMapDefaultsFrom(loc, defaultValues, i + 1, st)
        ELSE IF loc.ro THEN Fail(st, "panic")
        ELSE applyMapDefaultsFrom(loc, defaultValues, i + 1, [st EXCEPT !.h[a].m = new])

\* applyMapDefaults: the entries registered for the map's own type, first
\* registered first, each adding the keys the live map lacks
applyMapDefaults(loc, defaultValues, st) == applyMapDefaultsFrom(loc, defaultValues, 1, st)

\* elem.Elem() of a non-nil interface element, the element itself otherwise
Unboxed(slot) == IF slot.k = "iface" /\ slot.f # <<>> THEN slot.f[1] ELSE slot
\* the element stored back: newElem is boxed again when the slot is an interface
Reboxed(slot, new) == IF slot.k = "iface" /\ slot.f # <<>> THEN Iface(slot.t, new) ELSE new
\* the place of reflect.New(elem.Type()).Elem()
NewElemLoc(a) == Loc(a, <<1>>, FALSE, FALSE)
\* the keys of a map cell in the order the iteration yields them
KeysInOrder(h, a, ord) == SelectSeq(ord, LAMBDA x : h[a].m[x] # <<>>)

RECURSIVE applyDefaultsRecursive(_, _, _, _)
RECURSIVE handleStructFrom(_, _, _, _, _)
RECURSIVE handleSliceFrom(_, _, _, _, _, _)
RECURSIVE handleMapKeys(_, _, _, _, _)

\* handleStruct: every field, exported or not, is walked
handleStructFrom(loc, D, i, st, dep) ==
    LET v == Get(st.h, loc)
    IN  IF st.err # "nil" \/ i > Len(v.f) THEN st
        ELSE handleStructFrom(loc, D, i + 1,
                              applyDefaultsRecursive(LocField(loc, v.t, i), D, st, dep + 1), dep)

handleStruct(loc, D, st, dep) == handleStructFrom(loc, D, 1, st, dep)

\* handleSlice: each element is copied out, walked and stored back
handleSliceFrom(loc, D, i, n, st, dep) ==
    IF st.err # "nil" \/ i > n THEN st
    ELSE LET arr == Get(st.h, loc).n
             slot == st.h[arr].v[i]
             tmp == Alloc(st.h)
             s1 == [st EXCEPT !.h[tmp] = VarCell(Unboxed(slot))]
             s2 == applyDefaultsRecursive(NewElemLoc(tmp), D, s1, dep + 1)
             new == s2.h[tmp].v[1]
             h3 == [s2.h EXCEPT ![tmp] = FreeCell, ![arr].v[i] = Reboxed(slot, new)]
         IN  IF loc.ro THEN Fail(st, "panic")
             ELSE IF s2.err # "nil" THEN [s2 EXCEPT !.h[tmp] = FreeCell]
             ELSE handleSliceFrom(loc, D, i + 1, n, [s2 EXCEPT !.h = h3], dep)

handleSlice(loc, D, st, dep) ==
    LET v == Get(st.h, loc)
    IN  handleSliceFrom(loc, D, 1, IF v.n = 0 THEN 0 ELSE Len(st.h[v.n].v), st, dep)

\* the loop of handleMap over v.MapKeys()
handleMapKeys(loc, D, keys, st, dep) ==
    IF st.err # "nil" \/ keys = <<>> THEN st
    ELSE LET a == Get(st.h, loc).n
             key == Head(keys)
             slot == st.h[a].m[key][1]
             tmp == Alloc(st.h)
             s1 == [st EXCEPT !.h[tmp] = VarCell(Unboxed(slot))]
             s2 == applyDefaultsRecursive(NewElemLoc(tmp), D, s1, dep + 1)
             new == s2.h[tmp].v[1]
             h3 == [s2.h EXCEPT ![tmp] = FreeCell, ![a].m[key] = <<Reboxed(slot, new)>>]
         IN  IF loc.ro THEN Fail(st, "panic")
             ELSE IF s2.err # "nil" THEN [s2 EXCEPT !.h[tmp] = FreeCell]
             ELSE handleMapKeys(loc, D, Tail(keys), [s2 EXCEPT !.h = h3], dep)

\* handleMap that adds the entries of the map's own defaults before it walks
\* the values, so that the walk merges the element defaults into them
handleMap_defaultsFirst(loc, D, st, dep) ==
    LET v == Get(st.h, loc)
        a == Alloc(st.h)
        s1 == IF v.n # 0 THEN st
              ELSE IF ~Settable(loc) THEN Fail(st, "panic")
              ELSE [st EXCEPT !.h = Put([st.h EXCEPT ![a] = MapCell(EmptySlots)], loc, MapV(v.t, a))]
        s2 == applyMapDefaults(loc, Lookup(D, v.t), s1)
        m == Get(s2.h, loc).n
    IN  IF s1.err # "nil" THEN s1
        ELSE IF s2.err # "nil" THEN s2
        ELSE handleMapKeys(loc, D, KeysInOrder(s2.h, m, s2.ord), s2, dep)

\* handleMap: a nil map is made, the values present are walked and stored back,
\* then the defaults of the map's own type are applied
handleMap(loc, D, st, dep) ==
    LET v == Get(st.h, loc)
        a == Alloc(st.h)
        s1 == IF v.n # 0 THEN st
              ELSE IF ~Settable(loc) THEN Fail(st, "panic")
              ELSE [st EXCEPT !.h = Put([st.h EXCEPT ![a] = MapCell(EmptySlots)], loc, MapV(v.t, a))]
        m == Get(s1.h, loc).n
        s2 == handleMapKeys(loc, D, KeysInOrder(s1.h, m, s1.ord), s1, dep)
    IN  IF s1.err # "nil" THEN s1
        ELSE IF s2.err # "nil" THEN s2
        ELSE applyMapDefaults(loc, Lookup(D, v.t), s2)

\* handlePointer: a non-nil pointer is followed
handlePointer(loc, D, st, dep) ==
    LET v == Get(st.h, loc)
    IN  IF v.n = 0 THEN st ELSE applyDefaultsRecursive(LocElem(loc, v), D, st, dep + 1)

\* handleInterface: v.Elem() of a non-nil interface is a copy that cannot be set
handleInterface(loc, D, st, dep) ==
    LET v == Get(st.h, loc)
        tmp == Alloc(st.h)
        s1 == [st EXCEPT !.h[tmp] = VarCell(v.f[1])]
        s2 == applyDefaultsRecursive(Loc(tmp, <<1>>, loc.ro, TRUE), D, s1, dep + 1)
    IN  IF v.f = <<>> THEN st ELSE [s2 EXCEPT !.h[tmp] = FreeCell]

\* applyDefaultsRecursive with the children handled before the node's own type
\* defaults: a component default reaches a nested leaf before the container's
applyDefaultsRecursive_childrenFirst(loc, D, st, dep) ==
    LET s1 == checkCircularReference(loc, st)
        v == Get(st.h, loc)
        s2 == CASE v.k = "struct" -> handleStruct(loc, D, s1, dep)
                [] v.k = "slice" -> handleSlice(loc, D, s1, dep)
                [] v.k = "map" -> handleMap(loc, D, s1, dep)
                [] v.k = "ptr" -> handlePointer(loc, D, s1, dep)
                [] v.k = "iface" -> handleInterface(loc, D, s1, dep)
                [] OTHER -> s1
    IN  IF dep > MaxDepth THEN Fail(st, "overflow")
        ELSE IF s1.err # "nil" THEN s1
        ELSE IF s2.err # "nil" THEN s2
        ELSE applyTypeDefaults(loc, Lookup(D, Get(s2.h, loc).t), s2, dep)

\* applyDefaultsRecursive: cycle check, the node's own type defaults, then the
\* children by kind; running out of stack is the outcome "overflow"
applyDefaultsRecursive(loc, D, st, dep) ==
    LET s1 == checkCircularReference(loc, st)
        v == Get(st.h, loc)
        s2 == applyTypeDefaults(loc, Lookup(D, v.t), s1, dep)
    IN  IF dep > MaxDepth THEN Fail(st, "overflow")
        ELSE IF s1.err # "nil" THEN s1
        ELSE IF s2.err # "nil" THEN s2
        ELSE CASE v.k = "struct" -> handleStruct(loc, D, s2, dep)
               [] v.k = "slice" -> handleSlice(loc, D, s2, dep)
               [] v.k = "map" -> handleMap(loc, D, s2, dep)
               [] v.k = "ptr" -> handlePointer(loc, D, s2, dep)
               [] v.k = "iface" -> handleInterface(loc, D, s2, dep)
               [] OTHER -> s2

\* applyDefaults without the IsNil test: v.Elem() of a nil pointer is the zero
\* Value, and v.Type() on it panics
applyDefaults_noNilTest(config, D, h, ord) ==
    IF config.k # "ptr" THEN Outcome(h, {}, ord, "ErrNotPointer")
    ELSE IF config.n = 0 THEN Outcome(h, {}, ord, "panic")
    ELSE applyDefaultsRecursive(Loc(config.n, <<1>>, FALSE, FALSE), D, Outcome(h, {}, ord, "nil"), 0)

\* applyDefaults working on a copy that is discarded when a cycle is found
applyDefaults_rollback(config, D, h, ord) ==
    LET o == IF config.k # "ptr" THEN Outcome(h, {}, ord, "ErrNotPointer")
             ELSE IF config.n = 0 THEN Outcome(h, {}, ord, "ErrNilConfig")
             ELSE applyDefaultsRecursive(Loc(config.n, <<1>>, FALSE, FALSE), D,
                                         Outcome(h, {}, ord, "nil"), 0)
    IN  IF o.err = "ErrCircularReference" THEN [o EXCEPT !.h = h] ELSE o

\* applyDefaults with a visited set that outlives the call: from the second
\* call on it starts with the addresses a walk of the graph records
applyDefaults_keptVisited(config, D, h, ord) ==
    LET start == Loc(config.n, <<1>>, FALSE, FALSE)
        once == applyDefaultsRecursive(start, D, Outcome(h, {}, ord, "nil"), 0)
    IN  IF config.k # "ptr" THEN Outcome(h, {}, ord, "ErrNotPointer")
        ELSE IF config.n = 0 THEN Outcome(h, {}, ord, "ErrNilConfig")
        ELSE IF calls = 0 THEN once
        ELSE applyDefaultsRecursive(start, D, Outcome(h, once.vis, ord, "nil"), 0)

\* applyDefaults: the entry point; config is the argument, a fresh visited set
\* is made for the call
applyDefaults(config, D, h, ord) ==
    IF config.k # "ptr" THEN Outcome(h, {}, ord, "ErrNotPointer")
    ELSE IF config.n = 0 THEN Outcome(h, {}, ord, "ErrNilConfig")
    ELSE applyDefaultsRecursive(Loc(config.n, <<1>>, FALSE, FALSE), D, Outcome(h, {}, ord, "nil"), 0)

\* ------------------------------------------------------------- configurations
\* The record types of the configurations:
\*   S  = struct{ Name int; Age int }
\*   C  = struct{ Inner S; Ptr *S; Alt *S }
\*   N  = struct{ Name int; Next *N }
\*   E  = struct{ Name int; Ref *S }
\*   L  = struct{ Items []E }
\*   MC = struct{ M map[string]S }
\*   A  = struct{ Data any }
\*   Priv = struct{ rec S; items []S; m map[string]S; Pub int }
S(a, b) == StructV("S", <<IntV(a), IntV(b)>>)
C(inner, p, q) == StructV("C", <<inner, PtrV("*S", p), PtrV("*S", q)>>)
N(a, p) == StructV("N", <<IntV(a), PtrV("*N", p)>>)
E(a, p) == StructV("E", <<IntV(a), PtrV("*S", p)>>)
L(a) == StructV("L", <<SliceV("[]E", a)>>)
MC(a) == StructV("MC", <<MapV("MapS", a)>>)
A(d) == StructV("A", <<d>>)
Priv(rec, items, m, pub) ==
    StructV("Priv", <<rec, SliceV("[]S", items), MapV("MapS", m), IntV(pub)>>)

\* scalars the caller writes into a configuration (defaults use larger ones)
InScalars == {0, 1}

\* memory owned by the values handed to WithDefaults
RegCells ==
    [a \in 6..10 |->
        CASE a = 6 -> VarCell(S(0, 6))
          [] a = 7 -> VarCell(S(7, 0))
          [] a = 8 -> MapCell([x \in Keys |-> IF x = 1 THEN <<S(7, 0)>> ELSE <<>>])
          [] a = 9 -> MapCell([x \in Keys |-> IF x = 1 THEN <<S(8, 8)>>
                                              ELSE IF x = 2 THEN <<S(9, 0)>> ELSE <<>>])
          [] a = 10 -> ArrCell(<<E(0, 0)>>)]

\* a heap holding the configuration's cells (addresses 1..5) and the registry's
HeapOf(cells) ==
    [a \in Addrs |-> IF a \in DOMAIN cells THEN cells[a]
                     ELSE IF a \in DOMAIN RegCells THEN RegCells[a] ELSE FreeCell]

Config(r, cells) == [root |-> r, cells |-> cells]

\* configurations of type S, and the two arguments applyDefaults rejects
InputsS ==
    { Config(PtrV("*S", 1), [a \in 1..1 |-> VarCell(S(x, y))]) : <<x, y>> \in InScalars \X InScalars }
        \cup { Config(PtrV("*S", 0), <<>>), Config(S(1, 0), <<>>) }

\* configurations of type C: nested record, two references, possibly shared
InputsC ==
    { Config(PtrV("*C", 1),
             [a \in 1..3 |->
                CASE a = 1 -> VarCell(C(S(x, 0), IF p = 0 THEN 0 ELSE 2, q))
                  [] a = 2 -> IF p = 0 THEN FreeCell ELSE VarCell(S(p - 1, 0))
                  [] a = 3 -> IF q = 3 THEN VarCell(S(0, z)) ELSE FreeCell]) :
        <<x, z, p, q>> \in
            { w \in InScalars \X InScalars \X {0, 1, 2} \X {0, 2, 3} :
                /\ (w[4] = 2 => w[3] # 0)
                /\ (w[4] # 3 => w[2] = 0) } }

\* configurations of type N: chains of one to three nodes, the last reference
\* nil or back to a node of the chain
InputsN ==
    { Config(PtrV("*N", 1),
             [a \in 1..3 |->
                IF a > len THEN FreeCell
                ELSE VarCell(N(IF a = 1 THEN x ELSE 0, IF a < len THEN a + 1 ELSE back))]) :
        <<x, len, back>> \in { w \in InScalars \X (1..3) \X (0..3) : w[3] <= w[2] } }

\* configurations of type L: a nil, empty, one- or two-element sequence of E
\* records whose references are nil, distinct or shared
InputsL ==
    { Config(PtrV("*L", 1),
             [a \in 1..4 |->
                CASE a = 1 -> VarCell(L(IF len < 0 THEN 0 ELSE 2))
                  [] a = 2 -> IF len < 0 THEN FreeCell
                              ELSE ArrCell(SubSeq(<<E(x, r1), E(0, r2)>>, 1, len))
                  [] a = 3 -> IF 3 \in {r1, r2} THEN VarCell(S(0, 0)) ELSE FreeCell
                  [] a = 4 -> IF r2 = 4 THEN VarCell(S(0, 0)) ELSE FreeCell]) :
        <<len, x, r1, r2>> \in
            { w \in (-1..2) \X InScalars \X {0, 3} \X {0, 3, 4} :
                /\ (w[1] < 1 => w[2] = 0 /\ w[3] = 0)
                /\ (w[1] < 2 => w[4] = 0)
                /\ (w[4] = 3 => w[3] = 3) } }

\* configurations of type MC: a nil, empty, one- or two-key map of S records
InputsMC ==
    { Config(PtrV("*MC", 1),
             [a \in 1..2 |->
                CASE a = 1 -> VarCell(MC(IF n < 0 THEN 0 ELSE 2))
                  [] a = 2 -> IF n < 0 THEN FreeCell
                              ELSE MapCell([k \in Keys |-> IF k <= n /\ k <= 2
                                                           THEN <<S(IF k = 1 THEN x ELSE 0, 0)>>
                                                           ELSE <<>>])]) :
        <<n, x>> \in { w \in (-1..2) \X InScalars : w[1] < 1 => w[2] = 0 } }

\* configurations of type A: the dynamic container is nil or holds a record, a
\* reference to a record, a map that contains itself or a map of a reference
InputsA ==
    { Config(PtrV("*A", 1), [a \in 1..1 |-> VarCell(A(d))]) :
        d \in {NilIface("any")} \cup { Iface("any", S(x, 0)) : x \in InScalars } }
    \cup
    { Config(PtrV("*A", 1),
             [a \in 1..2 |-> IF a = 1 THEN VarCell(A(Iface("any", PtrV("*S", 2))))
                             ELSE VarCell(S(x, 0))]) : x \in InScalars }
    \cup
    { Config(PtrV("*A", 1),
             [a \in 1..3 |->
                CASE a = 1 -> VarCell(A(Iface("any", MapV("MapAny", 2))))
                  [] a = 2 -> MapCell([k \in Keys |-> IF k = 1 THEN <<Iface("any", inner)>>
                                                      ELSE <<>>])
                  [] a = 3 -> IF inner.k = "ptr" THEN VarCell(S(0, 0)) ELSE FreeCell]) :
        inner \in {MapV("MapAny", 2), PtrV("*S", 3)} }

\* configurations of type Priv: the private record zero or set, the private
\* sequence nil or of one element, the private map nil or empty
InputsPriv ==
    { Config(PtrV("*Priv", 1),
             [a \in 1..3 |->
                CASE a = 1 -> VarCell(Priv(S(x, x), items, m, 0))
                  [] a = 2 -> IF items = 2 THEN ArrCell(<<S(1, 1)>>) ELSE FreeCell
                  [] a = 3 -> IF m = 3 THEN MapCell(EmptySlots) ELSE FreeCell]) :
        <<x, items, m>> \in InScalars \X {0, 2} \X {0, 3} }

Inputs ==
    InputsS \cup InputsC \cup InputsN \cup InputsL \cup InputsMC \cup InputsA \cup InputsPriv

\* the values a caller registers
DefaultVals ==
    { S(2, 0), S(3, 3),
      C(S(4, 0), 6, 0), C(S(5, 5), 0, 0),
      PtrV("*S", 7),
      N(8, 0),
      E(8, 0), L(10),
      MapV("MapS", 8), MapV("MapS", 9), MC(9),
      Priv(S(4, 0), 0, 0, 5) }

RegTypes == { dv.t : dv \in DefaultVals }

\* the types a caller registers defaults for, by the type of the configuration
Registrable(t) ==
    CASE t = "*C" -> {"C", "S"}
      [] t = "*N" -> {"N"}
      [] t = "*L" -> {"E", "L"}
      [] t = "*MC" -> {"MC", "MapS", "S"}
      [] t = "*A" -> {"S", "*S"}
      [] t = "*Priv" -> {"Priv", "S", "MapS"}
      [] OTHER -> {"S"}

RECURSIVE SumLen(_, _)
SumLen(D, ts) ==
    IF ts = {} THEN 0
    ELSE LET t == CHOOSE x \in ts : TRUE IN Len(D[t]) + SumLen(D, ts \ {t})

\* the number of values registered
Registered(D) == SumLen(D, DOMAIN D)

\* ------------------------------------------------------------- the state machine
NoDefaults == [t \in RegTypes |-> <<>>]

\* what a call started from: the heap, the registry and the previous outcome
\* (the error of the last applyDefaults, what the last Build returned)
Before(h, D, e) == [h |-> h, d |-> D, err |-> e, res |-> result]

\* dataSource: which of data, loaderFunc, provider was given to the
\* constructor, and whether it was nil, yields a value or yields an error
DataSource(kind, arg) == [kind |-> kind, arg |-> arg]

\* what Build returned: the reference (0 = nil) and the error, a chain of
\* wrapped messages ending in the originating error (empty = nil)
Returned(ref, e) == [ref |-> ref, err |-> e]
NoResult == Returned(0, <<>>)

\* the second caller of applyDefaults: its config argument, and the calls that
\* have returned so far (which caller, with which error), in order
Other(config, done) == [config |-> config, done |-> done]
NoOther == Other(PtrV("*S", 0), <<>>)

Init ==
    \E in \in Inputs :
        /\ heap = HeapOf(in.cells)
        /\ root = in.root
        /\ defaults = NoDefaults
        /\ err = "none"
        /\ calls = 0
        /\ source = DataSource("data", "ok")
        /\ transform = "nil"
        /\ validate = "nil"
        /\ trace = <<>>
        /\ result = NoResult
        /\ other = NoOther
        /\ limit = 0
        /\ pre = Before(HeapOf(in.cells), NoDefaults, "none")

\* Processor.WithDefaults, one value: appended under its runtime type
WithDefaults(dv) ==
    /\ calls = 0
    /\ dv.t \in Registrable(root.t)
    /\ Registered(defaults) < MaxDefaults
    /\ defaults' = [defaults EXCEPT ![dv.t] = Append(@, dv)]
    /\ UNCHANGED <<limit, heap, root, err, calls, pre, source, transform, validate, trace, result,
                   other>>

\* the orders in which a map's keys can be iterated
KeyOrders == { o \in [Keys -> Keys] : \A x, y \in Keys : o[x] = o[y] => x = y }

\* one call of applyDefaults(config, defaults); a panic or a stack overflow ends
\* the process
ApplyDefaults(ord) ==
    /\ calls < MaxCalls
    /\ err \notin {"panic", "overflow"}
    /\ \E o \in {applyDefaults(root, defaults, heap, ord)} :
           /\ heap' = o.h
           /\ err' = o.err
    /\ pre' = Before(heap, defaults, err)
    /\ calls' = calls + 1
    /\ UNCHANGED <<limit, defaults, root, source, transform, validate, trace, result, other>>

Next ==
    \/ \E dv \in DefaultVals : WithDefaults(dv)
    \/ \E ord \in KeyOrders : ApplyDefaults(ord)

Spec == Init /\ [][Next]_vars

\* ------------------------------------------------------------- the pipeline
\* the sources a Processor is constructed from: FromStruct with a value or
\* nil, FromLoaderFunc and FromProvider with nil or with a source that succeeds
\* or fails
Sources ==
    { DataSource("data", "ok"), DataSource("data", "nil"),
      DataSource("loaderFunc", "ok"), DataSource("loaderFunc", "err"),
      DataSource("loaderFunc", "nil"),
      DataSource("provider", "ok"), DataSource("provider", "err"),
      DataSource("provider", "nil") }

\* the transformers and validators a caller sets ("nil": none)
Transformers == {"nil", "setName"}
Validators == {"nil", "accept", "reject"}

\* the transformer: writes the first field of the record it is given
transformFn(h, a) == [h EXCEPT ![a].v[1].f[1] = IntV(9)]

\* Builder.load that returns the zero value and no error when no source is set
load_zeroWithoutSource(h, r, src) ==
    CASE src.arg = "ok" -> [cfg |-> h[r.n].v[1], err |-> <<>>]
      [] src.kind = "loaderFunc" /\ src.arg = "err" ->
            [cfg |-> ZeroOf(h[r.n].v[1]), err |-> <<"from loader func", "loaderErr">>]
      [] src.kind = "provider" /\ src.arg = "err" ->
            [cfg |-> ZeroOf(h[r.n].v[1]), err |-> <<"from provider", "providerErr">>]
      [] OTHER -> [cfg |-> ZeroOf(h[r.n].v[1]), err |-> <<>>]

\* Builder.load: the value of the source, or the source's error wrapped; with
\* data, loaderFunc and provider all nil there is no source
load(h, r, src) ==
    CASE src.kind = "data" /\ src.arg = "ok" -> [cfg |-> h[r.n].v[1], err |-> <<>>]
      [] src.kind = "loaderFunc" /\ src.arg = "ok" -> [cfg |-> h[r.n].v[1], err |-> <<>>]
      [] src.kind = "loaderFunc" /\ src.arg = "err" ->
            [cfg |-> ZeroOf(h[r.n].v[1]), err |-> <<"from loader func", "loaderErr">>]
      [] src.kind = "provider" /\ src.arg = "ok" -> [cfg |-> h[r.n].v[1], err |-> <<>>]
      [] src.kind = "provider" /\ src.arg = "err" ->
            [cfg |-> ZeroOf(h[r.n].v[1]), err |-> <<"from provider", "providerErr">>]
      [] OTHER -> [cfg |-> ZeroOf(h[r.n].v[1]), err |-> <<"no data source provided">>]

\* a stage that ran, with the value it was given
Stage(name, saw) == [stage |-> name, saw |-> saw]

\* the outcome of build: heap, returned reference and error, the stages that
\* ran, and the error of applyDefaults ("none" when it did not run)
Built(h, ref, e, tr, merr) == [h |-> h, ref |-> ref, err |-> e, trace |-> tr, merr |-> merr]

\* build with the transformer run on the loaded value, before applyDefaults
build_transformFirst(h, r, D, src, tf, vd, ord) ==
    LET l == load(h, r, src)
        a == Alloc(h)
        h0 == [h EXCEPT ![a] = VarCell(l.cfg)]
        h1 == IF tf = "nil" THEN h0 ELSE transformFn(h0, a)
        o == applyDefaults(PtrV(r.t, a), D, h1, ord)
        t1 == <<Stage("load", <<>>)>>
        t2 == IF tf = "nil" THEN t1 ELSE Append(t1, Stage("transform", <<l.cfg>>))
        t3 == Append(t2, Stage("apply defaults", <<h1[a].v[1]>>))
        t4 == IF vd = "nil" THEN t3 ELSE Append(t3, Stage("validate", <<o.h[a].v[1]>>))
    IN  IF l.err # <<>> THEN Built(h, 0, <<"load">> \o l.err, t1, "none")
        ELSE IF o.err # "nil"
        THEN Built([o.h EXCEPT ![a] = FreeCell], 0, <<"apply defaults", o.err>>, t3, o.err)
        ELSE IF vd = "reject"
        THEN Built([o.h EXCEPT ![a] = FreeCell], 0, <<"validate", "invalid">>, t4, "nil")
        ELSE Built(o.h, a, <<>>, t4, "nil")

\* build that runs the transformer and the validator also after applyDefaults
\* has failed, and returns the first error afterwards
build_noShortCircuit(h, r, D, src, tf, vd, ord) ==
    LET l == load(h, r, src)
        a == Alloc(h)
        h1 == [h EXCEPT ![a] = VarCell(l.cfg)]
        o == applyDefaults(PtrV(r.t, a), D, h1, ord)
        t1 == <<Stage("load", <<>>)>>
        t2 == Append(t1, Stage("apply defaults", <<l.cfg>>))
        h2 == IF tf = "nil" THEN o.h ELSE transformFn(o.h, a)
        t3 == IF tf = "nil" THEN t2 ELSE Append(t2, Stage("transform", <<o.h[a].v[1]>>))
        t4 == IF vd = "nil" THEN t3 ELSE Append(t3, Stage("validate", <<h2[a].v[1]>>))
    IN  IF l.err # <<>> THEN Built(h, 0, <<"load">> \o l.err, t1, "none")
        ELSE IF o.err # "nil"
        THEN Built([h2 EXCEPT ![a] = FreeCell], 0, <<"apply defaults", o.err>>, t4, o.err)
        ELSE IF vd = "reject"
        THEN Built([h2 EXCEPT ![a] = FreeCell], 0, <<"validate", "invalid">>, t4, "nil")
        ELSE Built(h2, a, <<>>, t4, "nil")

\* build that returns the reference to cfg together with the validator's error
build_valueAndError(h, r, D, src, tf, vd, ord) ==
    LET l == load(h, r, src)
        a == Alloc(h)
        h1 == [h EXCEPT ![a] = VarCell(l.cfg)]
        o == applyDefaults(PtrV(r.t, a), D, h1, ord)
        t1 == <<Stage("load", <<>>)>>
        t2 == Append(t1, Stage("apply defaults", <<l.cfg>>))
        h2 == IF tf = "nil" THEN o.h ELSE transformFn(o.h, a)
        t3 == IF tf = "nil" THEN t2 ELSE Append(t2, Stage("transform", <<o.h[a].v[1]>>))
        t4 == IF vd = "nil" THEN t3 ELSE Append(t3, Stage("validate", <<h2[a].v[1]>>))
    IN  IF l.err # <<>> THEN Built(h, 0, <<"load">> \o l.err, t1, "none")
        ELSE IF o.err # "nil"
        THEN Built([o.h EXCEPT ![a] = FreeCell], 0, <<"apply defaults", o.err>>, t2, o.err)
        ELSE IF vd = "reject" THEN Built(h2, a, <<"validate", "invalid">>, t4, "nil")
        ELSE Built(h2, a, <<>>, t4, "nil")

\* Builder.build: load, applyDefaults on the local cfg, transform, validate
build(h, r, D, src, tf, vd, ord) ==
    LET l == load(h, r, src)
        a == Alloc(h)
        h1 == [h EXCEPT ![a] = VarCell(l.cfg)]
        o == applyDefaults(PtrV(r.t, a), D, h1, ord)
        t1 == <<Stage("load", <<>>)>>
        t2 == Append(t1, Stage("apply defaults", <<l.cfg>>))
        h2 == IF tf = "nil" THEN o.h ELSE transformFn(o.h, a)
        t3 == IF tf = "nil" THEN t2 ELSE Append(t2, Stage("transform", <<o.h[a].v[1]>>))
        t4 == IF vd = "nil" THEN t3 ELSE Append(t3, Stage("validate", <<h2[a].v[1]>>))
    IN  IF l.err # <<>> THEN Built(h, 0, <<"load">> \o l.err, t1, "none")
        ELSE IF o.err # "nil"
        THEN Built([o.h EXCEPT ![a] = FreeCell], 0, <<"apply defaults", o.err>>, t2, o.err)
        ELSE IF vd = "reject"
        THEN Built([h2 EXCEPT ![a] = FreeCell], 0, <<"validate", "invalid">>, t4, "nil")
        ELSE Built(h2, a, <<>>, t4, "nil")

\* the configurations Build is run on: records of type S and chains of N
BuildInputs == { in \in InputsS \cup InputsN : in.root.k = "ptr" /\ in.root.n # 0 }

\* further configurations Build is run on, from a source that yields a value:
\* C records whose two references are nil, MC records whose map is nil or
\* empty
BuildInputsRef ==
    { in \in InputsC : in.cells[1].v[1].f[2].n = 0 /\ in.cells[1].v[1].f[3].n = 0 }
        \cup { in \in InputsMC : \A a \in DOMAIN in.cells : in.cells[a].m \in {<<>>, EmptySlots} }

\* the sources the configuration in is acquired from
SourcesOf(in) ==
    IF in \in BuildInputs THEN Sources
    ELSE {DataSource("data", "ok"), DataSource("loaderFunc", "ok")}

\* FromStruct, FromLoaderFunc or FromProvider: a Processor with its source
BuildInit ==
    \E in \in BuildInputs \cup BuildInputsRef :
        \E src \in SourcesOf(in) :
            /\ heap = HeapOf(in.cells)
            /\ root = in.root
            /\ defaults = NoDefaults
            /\ err = "none"
            /\ calls = 0
            /\ source = src
            /\ transform = "nil"
            /\ validate = "nil"
            /\ trace = <<>>
            /\ result = NoResult
            /\ other = NoOther
            /\ limit = 0
            /\ pre = Before(HeapOf(in.cells), NoDefaults, "none")

\* Processor.WithTransformer; the transformer that writes Name is a func(*T)
\* for the record types that have the field
WithTransformer(fn) ==
    /\ calls = 0
    /\ fn = "setName" => root.t \in {"*S", "*N"}
    /\ transform' = fn
    /\ UNCHANGED <<limit, heap, defaults, root, err, calls, pre, source, validate, trace, result,
                   other>>

\* Processor.WithValidator
WithValidator(fn) ==
    /\ calls = 0
    /\ validate' = fn
    /\ UNCHANGED <<limit, heap, defaults, root, err, calls, pre, source, transform, trace, result,
                   other>>

\* Processor.Build
Build(ord) ==
    /\ calls < MaxCalls
    /\ err \notin {"panic", "overflow"}
    /\ \E b \in {build(heap, root, defaults, source, transform, validate, ord)} :
           /\ heap' = b.h
           /\ result' = Returned(b.ref, b.err)
           /\ trace' = b.trace
           /\ err' = b.merr
    /\ pre' = Before(heap, defaults, err)
    /\ calls' = calls + 1
    /\ UNCHANGED <<limit, defaults, root, source, transform, validate, other>>

BuildNext ==
    \/ \E dv \in DefaultVals : WithDefaults(dv)
    \/ \E fn \in Transformers : WithTransformer(fn)
    \/ \E fn \in Validators : WithValidator(fn)
    \/ \E ord \in KeyOrders : Build(ord)

BuildSpec == BuildInit /\ [][BuildNext]_vars

\* ------------------------------------------------------------- two callers
\* the graph of the second caller: a C record at address 11 whose Alt refers
\* to an S record at address 13, disjoint from the first caller's graph
OtherCells(y) ==
    [a \in {11, 13} |-> IF a = 11 THEN VarCell(C(S(y, 0), 0, 13)) ELSE VarCell(S(0, 0))]

\* the heap of both graphs and the registry's storage
SharedHeap(cells, y) ==
    [a \in Addrs |-> IF a \in DOMAIN OtherCells(y) THEN OtherCells(y)[a]
                     ELSE HeapOf(cells)[a]]

\* the graphs of the first caller: C records with Ptr nil and Alt set
SharedInputs ==
    { in \in InputsC : in.cells[1].v[1].f[2].n = 0 /\ in.cells[1].v[1].f[3].n = 3 }

SharedInit ==
    \E in \in SharedInputs, y \in InScalars :
        /\ heap = SharedHeap(in.cells, y)
        /\ root = in.root
        /\ defaults = NoDefaults
        /\ err = "none"
        /\ calls = 0
        /\ source = DataSource("data", "ok")
        /\ transform = "nil"
        /\ validate = "nil"
        /\ trace = <<>>
        /\ result = NoResult
        /\ other = Other(PtrV("*C", 11), <<>>)
        /\ limit = 0
        /\ pre = Before(SharedHeap(in.cells, y), NoDefaults, "none")

\* the config argument of caller i
ConfigOf(i) == IF i = 1 THEN root ELSE other.config

\* the callers whose call has returned
HasReturned(i) == \E j \in 1..Len(other.done) : other.done[j].who = i

\* the applyDefaults call of caller i on its own graph, with the shared
\* registry; pre keeps the state before the first of the calls
MergeCall(i, ord) ==
    /\ calls < MaxCalls
    /\ ~HasReturned(i)
    /\ err \notin {"panic", "overflow"}
    /\ \E o \in {applyDefaults(ConfigOf(i), defaults, heap, ord)} :
           /\ heap' = o.h
           /\ err' = o.err
           /\ other' = [other EXCEPT !.done = Append(@, [who |-> i, err |-> o.err])]
    /\ pre' = IF calls = 0 THEN Before(heap, defaults, err) ELSE pre
    /\ calls' = calls + 1
    /\ UNCHANGED <<limit, defaults, root, source, transform, validate, trace, result>>

SharedNext ==
    \/ \E dv \in DefaultVals : WithDefaults(dv)
    \/ \E i \in {1, 2}, ord \in KeyOrders : MergeCall(i, ord)

SharedSpec == SharedInit /\ [][SharedNext]_vars

\* ------------------------------------------------------------- reading the heap
RECURSIVE RefsOf(_)
\* the addresses a value holds
RefsOf(val) ==
    CASE val.k \in {"ptr", "slice", "map"} -> IF val.n = 0 THEN {} ELSE {val.n}
      [] val.k \in {"struct", "iface"} -> UNION { RefsOf(val.f[i]) : i \in 1..Len(val.f) }
      [] OTHER -> {}

\* the addresses a cell holds
CellRefs(c) ==
    UNION ({ RefsOf(c.v[i]) : i \in 1..Len(c.v) }
           \cup { RefsOf(c.m[x][1]) : x \in { y \in DOMAIN c.m : c.m[y] # <<>> } })

RECURSIVE Closure(_, _)
\* the cells reachable from a set of addresses
Closure(h, as) ==
    LET next == as \cup UNION { CellRefs(h[a]) : a \in as }
    IN  IF next = as THEN as ELSE Closure(h, next)

\* the cells of the configuration graph, and those of the registered values
ReachCfg(h, r) == Closure(h, RefsOf(r))
ReachReg(h, D) ==
    Closure(h, UNION { UNION { RefsOf(D[t][i]) : i \in 1..Len(D[t]) } : t \in DOMAIN D })

\* a cell of the configuration graph is reachable from itself
HasCycle(h, r) == \E a \in ReachCfg(h, r) : a \in Closure(h, CellRefs(h[a]))

\* the record the configuration argument points to
RootVal(h) == h[root.n].v[1]
ValidRoot == root.k = "ptr" /\ root.n # 0

RECURSIVE PreservedVal(_, _)
\* new keeps everything of old that was not zero
PreservedVal(old, new) ==
    /\ new.k = old.k
    /\ new.t = old.t
    /\ CASE old.k = "struct" -> \A i \in 1..Len(old.f) : PreservedVal(old.f[i], new.f[i])
         [] old.k = "iface" -> old.f # <<>> => (new.f # <<>> /\ PreservedVal(old.f[1], new.f[1]))
         [] OTHER -> old.n # 0 => new.n = old.n

PreservedCell(old, new) ==
    /\ new.c = old.c
    /\ Len(new.v) = Len(old.v)
    /\ \A i \in 1..Len(old.v) : PreservedVal(old.v[i], new.v[i])
    /\ \A x \in DOMAIN old.m :
          old.m[x] # <<>> => (new.m[x] # <<>> /\ PreservedVal(old.m[x][1], new.m[x][1]))

\* ------------------------------------------------------------- claims
\* C1 (zero-preservation): after a call of applyDefaults, whatever its outcome,
\* every cell of the configuration graph keeps what was not zero before the
\* call: non-zero scalars their value, non-nil references their target, non-nil
\* sequences their backing array and length, maps their keys.
C1_ZeroPreservation ==
    (calls >= 1 /\ ValidRoot) =>
        \A a \in ReachCfg(pre.h, root) : PreservedCell(pre.h[a], heap[a])

\* a successful call that wrote into a C configuration whose Inner.Name was
\* set by the caller, with a default of type C registered that sets it too
C1_Witness ==
    /\ calls = 1 /\ err = "nil" /\ root.t = "*C"
    /\ RootVal(pre.h).f[1].f[1].n = 1
    /\ Len(pre.d["C"]) > 0
    /\ heap # pre.h

RECURSIVE LeafPaths(_)
\* the paths from a record to its scalar leaves, through the exported fields
\* of nested records
LeafPaths(val) ==
    CASE val.k = "int" -> {<<>>}
      [] val.k = "struct" ->
            UNION { { <<i>> \o q : q \in LeafPaths(val.f[i]) } :
                    i \in { j \in 1..Len(val.f) : FieldExported(val.t, j) } }
      [] OTHER -> {}

RECURSIVE LastNonZero(_, _, _)
\* the leaf at path of the most recently registered of the first i defaults in
\* which it is not zero; 0 when it is zero in all of them
LastNonZero(tds, path, i) ==
    IF i = 0 THEN 0
    ELSE IF GetIn(tds[i], path).n # 0 THEN GetIn(tds[i], path).n
    ELSE LastNonZero(tds, path, i - 1)

\* what the defaults registered for the type of a record supply for a leaf
Supplied(D, rec, path) == LastNonZero(Lookup(D, rec.t), path, Len(Lookup(D, rec.t)))

\* C2 (priority among same-type defaults): after a call, every scalar leaf of
\* the configuration record that was zero before it and that some default
\* registered for the record's type sets holds the value of the most recently
\* registered default in which that leaf is not zero.
C2_Priority ==
    (calls >= 1 /\ ValidRoot) =>
        \A p \in LeafPaths(RootVal(pre.h)) :
            (GetIn(RootVal(pre.h), p).n = 0 /\ Supplied(pre.d, RootVal(pre.h), p) # 0)
                => GetIn(RootVal(heap), p).n = Supplied(pre.d, RootVal(pre.h), p)

\* S{Name: 3, Age: 3} then S{Name: 2} registered, applied to a zero S: the
\* name of the later default, the age of the earlier one
C2_Witness ==
    /\ calls = 1 /\ root.t = "*S" /\ ValidRoot
    /\ pre.d["S"] = <<S(3, 3), S(2, 0)>>
    /\ RootVal(pre.h) = S(0, 0)
    /\ RootVal(heap) = S(2, 3)

\* C3 (idempotence): when a call succeeds, a second call with the same registry
\* succeeds too and leaves every cell of the configuration graph as the first
\* call left it.
C3_Idempotence ==
    (calls = 2 /\ pre.err = "nil" /\ ValidRoot) =>
        /\ err = "nil"
        /\ \A a \in ReachCfg(heap, root) \cup ReachCfg(pre.h, root) : heap[a] = pre.h[a]

\* what container defaults and component defaults together supply for leaf i of
\* the component held in field 1 of a container record
Composed(D, rec, i) ==
    IF Supplied(D, rec, <<1, i>>) # 0 THEN Supplied(D, rec, <<1, i>>)
    ELSE Supplied(D, rec.f[1], <<i>>)

\* C4 (container-then-component composition): after a call on a container
\* record C with a nested record Inner of type S, every leaf of Inner that was
\* zero before the call holds the value the defaults registered for C give it
\* when that is not zero, and otherwise the value the defaults registered for S
\* give it.
C4_ContainerThenComponent ==
    (calls >= 1 /\ ValidRoot /\ root.t = "*C") =>
        \A i \in 1..2 :
            RootVal(pre.h).f[1].f[i].n = 0
                => RootVal(heap).f[1].f[i].n = Composed(pre.d, RootVal(pre.h), i)

\* C{Inner: S{Name: 4}} and S{Name: 3, Age: 3} registered, applied to a C with
\* a zero Inner: the name of the container default, the age of the S default
C4_Witness ==
    /\ calls = 1 /\ root.t = "*C" /\ ValidRoot /\ err = "nil"
    /\ Len(pre.d["C"]) = 1 /\ pre.d["C"][1].f[1] = S(4, 0)
    /\ pre.d["S"] = <<S(3, 3)>>
    /\ RootVal(pre.h).f[1] = S(0, 0)
    /\ RootVal(heap).f[1] = S(4, 3)

\* C5 (cycle rejection): a call on a configuration graph in which some cell is
\* reachable from itself, through references, sequences, maps or dynamic
\* containers, returns ErrCircularReference.
C5_CycleRejected ==
    (calls >= 1 /\ ValidRoot /\ HasCycle(pre.h, root)) => err = "ErrCircularReference"

\* C6 (CircularReference only for a real cycle): a call on a configuration
\* graph in which no cell is reachable from itself, shared cells included, does
\* not return ErrCircularReference.
C6_OnlyRealCycles ==
    (calls >= 1 /\ ValidRoot /\ ~HasCycle(pre.h, root)) => err # "ErrCircularReference"

\* no default registered for C sets one of its two references
NoPtrDefault(D) == \A i \in 1..Len(D["C"]) : D["C"][i].f[2].n = 0 /\ D["C"][i].f[3].n = 0

\* C7 (nil references are harmless): a call on a C record whose two references
\* are both nil, with no default of type C that sets either, returns no error
\* and leaves both references nil.
C7_NilHarmless ==
    (/\ calls >= 1 /\ ValidRoot /\ root.t = "*C"
     /\ RootVal(pre.h).f[2].n = 0 /\ RootVal(pre.h).f[3].n = 0
     /\ NoPtrDefault(pre.d))
        => (err = "nil" /\ RootVal(heap).f[2].n = 0 /\ RootVal(heap).f[3].n = 0)

\* C8 (no aliasing of registered defaults): after a call, no cell of the
\* configuration graph is a cell of a registered default.
C8_NoAliasing ==
    calls >= 1 => ReachCfg(heap, root) \cap ReachReg(heap, defaults) = {}

\* C9 (the registry is immutable during a merge): after a call, every cell
\* reachable from a registered default holds what it held before the call.
C9_RegistryImmutable ==
    calls >= 1 => \A a \in ReachReg(pre.h, pre.d) : heap[a] = pre.h[a]

\* applyDefaults on element e of a sequence taken alone, in a cell of its own
Alone(h, D, e) ==
    LET a == Alloc(h)
        o == applyDefaults(PtrV("*E", a), D, [h EXCEPT ![a] = VarCell(e)],
                           CHOOSE ord \in KeyOrders : TRUE)
    IN  [val |-> o.h[a].v[1], h |-> o.h, err |-> o.err]

\* C10 (every sequence element is defaulted individually): a call on an L
\* record whose Items are a non-nil sequence of E records returns no error,
\* keeps the length of the sequence, and leaves each element, and the cells it
\* refers to, as a call on that element alone leaves them.
C10_ElementsIndividually ==
    (calls = 1 /\ ValidRoot /\ root.t = "*L" /\ RootVal(pre.h).f[1].n # 0) =>
        LET old == pre.h[RootVal(pre.h).f[1].n].v
            new == heap[RootVal(pre.h).f[1].n].v
        IN  /\ err = "nil"
            /\ RootVal(heap).f[1] = RootVal(pre.h).f[1]
            /\ Len(new) = Len(old)
            /\ \A i \in 1..Len(old) :
                  /\ new[i] = Alone(pre.h, pre.d, old[i]).val
                  /\ \A b \in Closure(pre.h, RefsOf(old[i])) :
                        heap[b] = Alone(pre.h, pre.d, old[i]).h[b]

\* the keys some map default offers to the M field of an MC record: those of
\* the defaults registered for MC and of those registered for the map type
OfferedKeys(h, D) ==
    { k \in Keys :
        \/ \E i \in 1..Len(D["MC"]) : SlotsOf(h, D["MC"][i].f[1])[k] # <<>>
        \/ \E i \in 1..Len(D["MapS"]) : SlotsOf(h, D["MapS"][i])[k] # <<>> }

\* C11 (map defaulting): after a call on an MC record the call has succeeded,
\* the map field M is not nil (the same map when it was not nil before), every
\* key present before is present, each leaf of its value being the old one
\* when that was not zero and otherwise what the defaults of the value's type
\* S supply (never what a map default holds under that key), and every key
\* that was added is a key of some map default.
C11_MapDefaulting ==
    (calls >= 1 /\ ValidRoot /\ root.t = "*MC") =>
        LET old == RootVal(pre.h).f[1]
            new == RootVal(heap).f[1]
            oldSlots == SlotsOf(pre.h, old)
            newSlots == SlotsOf(heap, new)
        IN  /\ err = "nil"
            /\ new.n # 0
            /\ old.n # 0 => new.n = old.n
            /\ \A k \in Keys :
                  /\ oldSlots[k] # <<>> =>
                        /\ newSlots[k] # <<>>
                        /\ \A i \in 1..2 :
                              newSlots[k][1].f[i].n =
                                  IF oldSlots[k][1].f[i].n # 0 THEN oldSlots[k][1].f[i].n
                                  ELSE Supplied(pre.d, oldSlots[k][1], <<i>>)
                  /\ (oldSlots[k] = <<>> /\ newSlots[k] # <<>>) => k \in OfferedKeys(pre.h, pre.d)

\* a live map with key 1 only, a map default with keys 1 and 2 registered for
\* the map's type: key 1 keeps its value, key 2 is added from the default
C11_Witness ==
    /\ calls = 1 /\ root.t = "*MC" /\ ValidRoot /\ err = "nil"
    /\ RootVal(pre.h).f[1].n # 0
    /\ SlotsOf(pre.h, RootVal(pre.h).f[1])[1] = <<S(1, 0)>>
    /\ SlotsOf(pre.h, RootVal(pre.h).f[1])[2] = <<>>
    /\ pre.d["MapS"] = <<MapV("MapS", 9)>>
    /\ SlotsOf(heap, RootVal(heap).f[1])[1] = <<S(1, 0)>>
    /\ SlotsOf(heap, RootVal(heap).f[1])[2] = <<S(9, 0)>>

RECURSIVE LastWithKey(_, _, _, _)
\* the slot under key k of the most recently registered of the first i map
\* defaults that has the key; no slot when none has it
LastWithKey(h, mds, k, i) ==
    IF i = 0 THEN <<>>
    ELSE IF SlotsOf(h, mds[i])[k] # <<>> THEN SlotsOf(h, mds[i])[k]
    ELSE LastWithKey(h, mds, k, i - 1)

\* C12 (most recently registered wins for map defaults): after a successful
\* call on an MC record, with no default registered for MC itself, every key
\* that was absent from the map M before the call and that some default
\* registered for the map's type has holds the value of the most recently
\* registered of those defaults that has the key.
C12_MapPriority ==
    (calls = 1 /\ ValidRoot /\ root.t = "*MC" /\ err = "nil" /\ Len(pre.d["MC"]) = 0) =>
        \A k \in Keys :
            (/\ SlotsOf(pre.h, RootVal(pre.h).f[1])[k] = <<>>
             /\ LastWithKey(pre.h, pre.d["MapS"], k, Len(pre.d["MapS"])) # <<>>)
                => SlotsOf(heap, RootVal(heap).f[1])[k]
                       = LastWithKey(pre.h, pre.d["MapS"], k, Len(pre.d["MapS"]))

\* the record a dynamic container refers to: the record it holds by value, or
\* the referent of the reference it holds
HeldRecord(h, box) ==
    IF box.f[1].k = "ptr" THEN h[box.f[1].n].v[1] ELSE box.f[1]

\* the Data field of an A record holds a record of type S, by value or through
\* a non-nil reference
HoldsRecord(h) ==
    /\ RootVal(h).f[1].f # <<>>
    /\ \/ RootVal(h).f[1].f[1].k = "struct"
       \/ RootVal(h).f[1].f[1].k = "ptr" /\ RootVal(h).f[1].f[1].n # 0

\* C13 (dynamic containers are defaulted by concrete type): a call on an A
\* record whose dynamic container Data holds an S record, by value or by
\* reference, with defaults registered for S only, completes without failure,
\* and each leaf of the held record is the old one when that was not zero and
\* otherwise what the defaults registered for S supply.
C13_DynamicContainers ==
    (/\ calls = 1 /\ ValidRoot /\ root.t = "*A" /\ HoldsRecord(pre.h)
     /\ Len(pre.d["*S"]) = 0) =>
        /\ err = "nil"
        /\ HoldsRecord(heap)
        /\ \A i \in 1..2 :
              HeldRecord(heap, RootVal(heap).f[1]).f[i].n =
                  IF HeldRecord(pre.h, RootVal(pre.h).f[1]).f[i].n # 0
                  THEN HeldRecord(pre.h, RootVal(pre.h).f[1]).f[i].n
                  ELSE Supplied(pre.d, HeldRecord(pre.h, RootVal(pre.h).f[1]), <<i>>)

\* C14 (private fields are never touched): a call on a Priv record completes
\* without failure and leaves its three private fields, and every cell they
\* refer to, as they were.
C14_PrivateUntouched ==
    (calls >= 1 /\ ValidRoot /\ root.t = "*Priv") =>
        /\ err = "nil"
        /\ \A i \in 1..3 :
              /\ RootVal(heap).f[i] = RootVal(pre.h).f[i]
              /\ \A a \in Closure(pre.h, RefsOf(RootVal(pre.h).f[i])) : heap[a] = pre.h[a]

\* C15 (termination): no call of applyDefaults recurses until the goroutine
\* stack is exhausted.
C15_Termination == err # "overflow"

\* C16 (precondition errors): a call whose argument is a plain value returns
\* ErrNotPointer, a call whose argument is a nil reference returns
\* ErrNilConfig, and in both cases the heap, registry storage included, and the
\* registry are what they were before the call.
C16_PreconditionErrors ==
    calls >= 1 =>
        /\ root.k # "ptr" => (err = "ErrNotPointer" /\ heap = pre.h /\ defaults = pre.d)
        /\ (root.k = "ptr" /\ root.n = 0)
              => (err = "ErrNilConfig" /\ heap = pre.h /\ defaults = pre.d)

\* a nil *S passed with two defaults registered
C16_Witness ==
    /\ calls = 1 /\ root = PtrV("*S", 0) /\ err = "ErrNilConfig"
    /\ Registered(defaults) = 2

\* C17 (no rollback on cycle detection): when a call on a chain of N records
\* returns ErrCircularReference, every record of the chain has the name it had
\* when that was not zero and otherwise the name the defaults registered for N
\* supply, and every Next reference is what it was.
C17_NoRollback ==
    (calls = 1 /\ ValidRoot /\ root.t = "*N" /\ err = "ErrCircularReference") =>
        \A a \in ReachCfg(pre.h, root) :
            /\ heap[a].v[1].f[1].n =
                  IF pre.h[a].v[1].f[1].n # 0 THEN pre.h[a].v[1].f[1].n
                  ELSE Supplied(pre.d, pre.h[a].v[1], <<1>>)
            /\ heap[a].v[1].f[2] = pre.h[a].v[1].f[2]

\* a cycle of more than one N record with zero names and a default registered
\* for N: the call fails and the names are filled
C17_Witness ==
    /\ calls = 1 /\ root.t = "*N" /\ err = "ErrCircularReference"
    /\ Len(pre.d["N"]) > 0
    /\ Cardinality(ReachCfg(pre.h, root)) >= 2
    /\ \A a \in ReachCfg(pre.h, root) : pre.h[a].v[1].f[1].n = 0 /\ heap[a].v[1].f[1].n = 8

\* the names of the stages that ran in the last Build, in order
StagesRun == [i \in 1..Len(trace) |-> trace[i].stage]

\* the stages a Build that fails nowhere runs
StagesConfigured ==
    <<"load", "apply defaults">>
        \o (IF transform # "nil" THEN <<"transform">> ELSE <<>>)
        \o (IF validate # "nil" THEN <<"validate">> ELSE <<>>)

\* what the registry supplies for the leaf at path p of a record: the value of
\* the defaults registered for the record's type, and when that is zero and
\* the leaf lies in a nested record, of those registered for the nested type
SuppliedAt(D, rec, p) ==
    IF Supplied(D, rec, p) # 0 \/ Len(p) < 2 THEN Supplied(D, rec, p)
    ELSE Supplied(D, rec.f[p[1]], Tail(p))

\* val is the loaded record with its zero leaves filled from the defaults
\* registered for its type and for the types of its nested records
DefaultsApplied(loaded, val) ==
    \A p \in LeafPaths(loaded) :
        GetIn(val, p).n = IF GetIn(loaded, p).n # 0 THEN GetIn(loaded, p).n
                          ELSE SuppliedAt(pre.d, loaded, p)

\* C18 (pipeline order): in a successful Build the stages that ran are load,
\* apply defaults, transform when a transformer is set, validate when a
\* validator is set, once each and in that order; the transformer was given
\* the loaded value with the defaults applied, and the validator the value as
\* the transformer left it (as the defaults left it when there is none).
C18_PipelineOrder ==
    (calls >= 1 /\ result.err = <<>>) =>
        /\ StagesRun = StagesConfigured
        /\ transform # "nil" => DefaultsApplied(trace[2].saw[1], trace[3].saw[1])
        /\ (transform # "nil" /\ validate # "nil")
              => trace[4].saw[1] = [trace[3].saw[1] EXCEPT !.f[1] = IntV(9)]
        /\ (transform = "nil" /\ validate # "nil")
              => DefaultsApplied(trace[2].saw[1], trace[3].saw[1])

\* a zero S loaded, S{Name: 3, Age: 3} registered, a transformer and an
\* accepting validator set: four stages, the validator sees S{9, 3}
C18_Witness ==
    /\ calls = 1 /\ result.err = <<>> /\ result.ref # 0
    /\ transform = "setName" /\ validate = "accept"
    /\ pre.d["S"] = <<S(3, 3)>>
    /\ Len(trace) = 4
    /\ trace[2].saw = <<S(0, 0)>> /\ trace[3].saw = <<S(3, 3)>> /\ trace[4].saw = <<S(9, 3)>>

\* C19 (short-circuit): after a Build that returned an error, the last stage
\* that ran is the one the error is tagged with: a failing source leaves load
\* as the only stage, a failing applyDefaults leaves load and apply defaults,
\* whatever transformer and validator are set, and the error is that stage's.
C19_ShortCircuit ==
    (calls >= 1 /\ result.err # <<>>) =>
        /\ trace[Len(trace)].stage = result.err[1]
        /\ StagesRun = SubSeq(StagesConfigured, 1, Len(trace))
        /\ source.arg # "ok" => StagesRun = <<"load">>
        /\ (source.arg = "ok" /\ err # "nil")
              => (StagesRun = <<"load", "apply defaults">>
                  /\ result.err = <<"apply defaults", err>>)

\* a cyclic chain loaded with a transformer and a rejecting validator set:
\* applyDefaults fails and neither of them runs
C19_Witness ==
    /\ calls = 1 /\ err = "ErrCircularReference"
    /\ transform = "setName" /\ validate = "reject"
    /\ StagesRun = <<"load", "apply defaults">>
    /\ result.err = <<"apply defaults", "ErrCircularReference">>

\* the error a failing stage of Build originates
Originating ==
    CASE source.kind = "loaderFunc" /\ source.arg = "err" -> "loaderErr"
      [] source.kind = "provider" /\ source.arg = "err" -> "providerErr"
      [] source.arg # "ok" -> "no data source provided"
      [] err # "nil" -> err
      [] OTHER -> "invalid"

\* C20 (a value or an error, never both): after a Build, either the error is
\* nil and the reference returned is not, or the reference is nil and the
\* error is a chain that starts with the tag load, apply defaults or validate
\* and ends with the error the failing stage originated.
C20_ValueOrError ==
    calls >= 1 =>
        /\ result.err = <<>> => result.ref # 0
        /\ result.err # <<>> =>
              /\ result.ref = 0
              /\ result.err[1] \in {"load", "apply defaults", "validate"}
              /\ result.err[Len(result.err)] = Originating

\* a Build whose validator rejected: no reference, the validator's error
\* tagged validate
C20_Witness ==
    /\ calls = 1 /\ validate = "reject" /\ err = "nil"
    /\ result = Returned(0, <<"validate", "invalid">>)

\* nothing but the source is configured
NothingConfigured == Registered(defaults) = 0 /\ transform = "nil" /\ validate = "nil"

\* C21 (a Build with nothing configured is the identity): a Build from a
\* source that yields a value without a cycle, with no defaults, transformer or validator,
\* returns no error and a reference to a record equal to the acquired one,
\* every cell the acquired record refers to being as it was.
C21_IdentityBuild ==
    (calls = 1 /\ NothingConfigured /\ source.arg = "ok" /\ ~HasCycle(pre.h, root)) =>
        /\ result.err = <<>>
        /\ result.ref # 0
        /\ heap[result.ref].v[1] = RootVal(pre.h)
        /\ \A a \in ReachCfg(pre.h, root) : heap[a] = pre.h[a]

\* the outcome of caller i's call run alone from the state before both calls
AloneCall(i) == applyDefaults(ConfigOf(i), pre.d, pre.h, CHOOSE ord \in KeyOrders : TRUE)

\* C22 (a shared read-only registry is safe): after the calls of two callers
\* on disjoint graphs with one registry, in either order, each call returned
\* what it returns when run alone, each graph is as that call alone leaves it,
\* and no cell belongs to both graphs.
C22_SharedRegistrySafe ==
    Len(other.done) = 2 =>
        /\ \A j \in 1..2 :
              /\ other.done[j].err = AloneCall(other.done[j].who).err
              /\ \A a \in ReachCfg(AloneCall(other.done[j].who).h, ConfigOf(other.done[j].who)) :
                    heap[a] = AloneCall(other.done[j].who).h[a]
        /\ ReachCfg(heap, root) \cap ReachCfg(heap, other.config) = {}

\* the sequence the most recently registered default for L supplies for Items
\* (nil when none is registered or it supplies none)
SuppliedItems(D) ==
    IF \E i \in 1..Len(D["L"]) : D["L"][i].f[1].n # 0
    THEN D["L"][CHOOSE i \in 1..Len(D["L"]) :
                    /\ D["L"][i].f[1].n # 0
                    /\ \A j \in (i + 1)..Len(D["L"]) : D["L"][j].f[1].n = 0].f[1]
    ELSE SliceV("[]E", 0)

\* C23 (an empty non-nil sequence is not zero): after a call on an L record,
\* a sequence field Items that was not nil, empty included, is the same
\* sequence with the same length, whatever default is registered for L; an
\* Items that was nil is the sequence the defaults for L supply.
C23_EmptySequenceKept ==
    (calls >= 1 /\ ValidRoot /\ root.t = "*L") =>
        /\ RootVal(pre.h).f[1].n # 0 =>
              /\ RootVal(heap).f[1] = RootVal(pre.h).f[1]
              /\ Len(heap[RootVal(heap).f[1].n].v) = Len(pre.h[RootVal(pre.h).f[1].n].v)
        /\ RootVal(pre.h).f[1].n = 0 => RootVal(heap).f[1] = SuppliedItems(pre.d)

\* an L whose Items is empty and not nil, a default for L with one element
\* registered: Items is still empty after the call
C23_Witness ==
    /\ calls = 1 /\ root.t = "*L" /\ ValidRoot /\ err = "nil"
    /\ RootVal(pre.h).f[1].n # 0
    /\ pre.h[RootVal(pre.h).f[1].n].v = <<>>
    /\ pre.d["L"] = <<L(10)>>
    /\ RootVal(heap).f[1] = RootVal(pre.h).f[1]
    /\ heap[RootVal(heap).f[1].n].v = <<>>

\* the live map of an MC configuration in heap h (0: nil)
LiveMap(h) == RootVal(h).f[1].n
\* key k is absent from the configuration's map in heap h
AbsentKey(h, k) == LiveMap(h) = 0 \/ h[LiveMap(h)].m[k] = <<>>
\* the defaults registered for the map's own type that hold key k
HoldingKey(h, D, k) == { i \in 1..Len(D["MapS"]) : h[D["MapS"][i].n].m[k] # <<>> }
\* the entry the map's own defaults contribute for key k: that of the first
\* registered default that holds it
Contributed(h, D, k) ==
    h[D["MapS"][CHOOSE i \in HoldingKey(h, D, k) :
                    \A j \in HoldingKey(h, D, k) : i <= j].n].m[k]

\* C24 (entries of a map's own default are copied verbatim): after a call on an
\* MC record with no default registered for MC, a key the map did not hold and
\* a default for the map's type holds carries exactly that default's value,
\* whatever defaults are registered for the element type S.
C24_MapEntriesVerbatim ==
    (calls >= 1 /\ ValidRoot /\ root.t = "*MC" /\ pre.d["MC"] = <<>>) =>
        /\ err = "nil"
        /\ \A k \in Keys :
              (AbsentKey(pre.h, k) /\ HoldingKey(pre.h, pre.d, k) # {}) =>
                  heap[LiveMap(heap)].m[k] = Contributed(pre.h, pre.d, k)

\* key 1 is absent, the map default holds {1: S(7,0)} and S(3,3) is registered
\* for the element type: the key ends as S(7,0), Age still zero
C24_Witness ==
    /\ calls = 1 /\ root.t = "*MC" /\ ValidRoot /\ err = "nil"
    /\ pre.d["MC"] = <<>>
    /\ pre.d["MapS"] = <<MapV("MapS", 8)>>
    /\ \E i \in 1..Len(pre.d["S"]) : pre.d["S"][i] = S(3, 3)
    /\ AbsentKey(pre.h, 1)
    /\ heap[LiveMap(heap)].m[1] = <<S(7, 0)>>

\* ------------------------------------------------------------- a registry written by hand
\* applyDefaults takes the registry as a plain map from types to values, and a
\* caller that writes the map itself can store a value under another type's key.
\* the values stored under the key of S: a scalar, records of other types
\* (N: a number and a nil reference; E: a number and a reference to a record;
\* C: three fields) and a record of type S
LiteralVals == { IntV(5), N(8, 0), E(8, 7), C(S(4, 0), 6, 0), S(2, 0) }

LiteralInit ==
    \E in \in InputsS :
        /\ heap = HeapOf(in.cells)
        /\ root = in.root
        /\ defaults = NoDefaults
        /\ err = "none"
        /\ calls = 0
        /\ source = DataSource("data", "ok")
        /\ transform = "nil"
        /\ validate = "nil"
        /\ trace = <<>>
        /\ result = NoResult
        /\ other = NoOther
        /\ limit = 0
        /\ pre = Before(HeapOf(in.cells), NoDefaults, "none")

\* one more entry of the map literal, the value dv under the key of type S
RegistryLiteral(dv) ==
    /\ calls = 0
    /\ Registered(defaults) < MaxDefaults
    /\ defaults' = [defaults EXCEPT !["S"] = Append(@, dv)]
    /\ UNCHANGED <<limit, heap, root, err, calls, pre, source, transform, validate, trace, result,
                   other>>

LiteralNext ==
    \/ \E dv \in LiteralVals : RegistryLiteral(dv)
    \/ \E ord \in KeyOrders : ApplyDefaults(ord)

LiteralSpec == LiteralInit /\ [][LiteralNext]_vars

\* field i of the value dv has the type of field i of an S record
FieldFits(dv, i) == dv.k = "struct" /\ i <= Len(dv.f) /\ dv.f[i].k = "int"
\* a value of another type is stored under the key of S
Misregistered(D) == \E j \in 1..Len(D["S"]) : D["S"][j].t # "S"

\* C25 (type-mismatched defaults are skipped silently): a call on an S record
\* with a value of another type stored under the key of S returns no error and
\* does not fail, and a field for which no stored value has a field of its type
\* is what it was.
C25_MismatchSkipped ==
    (calls >= 1 /\ ValidRoot /\ root.t = "*S" /\ Misregistered(pre.d)) =>
        /\ err = "nil"
        /\ \A i \in 1..2 :
              (\A j \in 1..Len(pre.d["S"]) : ~FieldFits(pre.d["S"][j], i)) =>
                  RootVal(heap).f[i] = RootVal(pre.h).f[i]

\* C26 (the visited set is local to one call): a second call on a graph whose
\* first call returned no error returns no error again, and a second call
\* reports a circular reference only if the first call on the graph did.
C26_VisitedLocal ==
    calls = 2 =>
        /\ pre.err = "nil" => err = "nil"
        /\ err = "ErrCircularReference" => pre.err = "ErrCircularReference"

\* a chain of two N records: the first call met the reference to the second
\* record and returned no error, and so does the second call
C26_Witness ==
    /\ calls = 2 /\ root.t = "*N" /\ ValidRoot
    /\ pre.err = "nil" /\ err = "nil"
    /\ RootVal(heap).f[2].n # 0
    /\ ~HasCycle(heap, root)

\* ------------------------------------------------------------- fillDefaults
\* reflect.New(v.Type().Elem()).Elem(): the zero record of a reference type
ElemZero(t) ==
    CASE t = "*S" -> S(0, 0)
      [] t = "*N" -> N(0, 0)
      [] t = "*C" -> C(S(0, 0), 0, 0)
      [] t = "*L" -> L(0)

\* the error of the depth guard
DepthExceeded == "maximum recursion depth exceeded"

\* DefaultProvider: the record types with a Defaults method, and what it
\* returns (S stands for a check with a name and an interval)
Implements(t) == t = "S"
Defaults(t) == S(0, 6)

\* isZeroValue: DeepEqual with the zero value of the type
isZeroValue(val) == val = ZeroOf(val)

RECURSIVE fillFromDefaultsFrom(_, _, _, _)
\* the loop of fillFromDefaults over the fields of src: a field dst has under
\* the same name, can be set, is of an assignable type and is zero takes src's
fillFromDefaultsFrom(dst, src, i, st) ==
    LET dv == Get(st.h, dst)
        f == LocField(dst, dv.t, i)
    IN  IF i > Len(src.f) THEN st
        ELSE IF dv.t # src.t \/ i > Len(dv.f) \/ ~Settable(f)
        THEN fillFromDefaultsFrom(dst, src, i + 1, st)
        ELSE IF ~AssignableTo(src.f[i], Get(st.h, f))
        THEN fillFromDefaultsFrom(dst, src, i + 1, st)
        ELSE IF isZeroValue(Get(st.h, f))
        THEN fillFromDefaultsFrom(dst, src, i + 1, [st EXCEPT !.h = Put(st.h, f, src.f[i])])
        ELSE fillFromDefaultsFrom(dst, src, i + 1, st)

fillFromDefaults(dst, src, st) == fillFromDefaultsFrom(dst, src, 1, st)

RECURSIVE fillDefaultsRecursive(_, _, _, _)
RECURSIVE fillFields(_, _, _, _, _)
RECURSIVE fillElems(_, _, _, _, _)

\* the loop over the elements of a sequence field
fillElems(loc, j, depth, md, st) ==
    LET arr == Get(st.h, loc).n
    IN  IF st.err # "nil" \/ arr = 0 THEN st
        ELSE IF j > Len(st.h[arr].v) THEN st
        ELSE fillElems(loc, j + 1, depth, md,
                       fillDefaultsRecursive(Loc(arr, <<j>>, loc.ro, FALSE), depth + 1, md, st))

\* the loop over the fields of the record at rec: a field that cannot be set is
\* skipped, a nil reference is pointed at a new zero record, references,
\* records and sequence elements are descended into; the values of a map are
\* not addressable and are left alone
\* (none of the record types here has an embedded field)
fillFields(rec, i, depth, md, st) ==
    LET v == Get(st.h, rec)
        f == LocField(rec, v.t, i)
        fv == Get(st.h, f)
        a == Alloc(st.h)
        s1 == IF fv.n # 0 THEN st
              ELSE [st EXCEPT !.h = Put([st.h EXCEPT ![a] = VarCell(ElemZero(fv.t))],
                                        f, PtrV(fv.t, a))]
    IN  IF st.err # "nil" \/ i > Len(v.f) THEN st
        ELSE IF ~Settable(f) THEN fillFields(rec, i + 1, depth, md, st)
        ELSE CASE fv.k = "ptr" ->
                    fillFields(rec, i + 1, depth, md,
                               fillDefaultsRecursive(LocElem(f, Get(s1.h, f)), depth + 1, md, s1))
               [] fv.k = "struct" ->
                    fillFields(rec, i + 1, depth, md, fillDefaultsRecursive(f, depth + 1, md, st))
               [] fv.k = "slice" ->
                    fillFields(rec, i + 1, depth, md, fillElems(f, 1, depth, md, st))
               [] OTHER -> fillFields(rec, i + 1, depth, md, st)

\* fillDefaultsRecursive: the depth guard, a nil reference that can be set is
\* pointed at a new zero record, the fields are filled, and an addressable
\* record of a type with a Defaults method takes that method's values
fillDefaultsRecursive(loc, depth, md, st) ==
    LET v == Get(st.h, loc)
        a == Alloc(st.h)
        s1 == IF v.k = "ptr" /\ v.n = 0
              THEN [st EXCEPT !.h = Put([st.h EXCEPT ![a] = VarCell(ElemZero(v.t))],
                                        loc, PtrV(v.t, a))]
              ELSE st
        rec == IF v.k = "ptr" THEN LocElem(loc, Get(s1.h, loc)) ELSE loc
        s2 == fillFields(rec, 1, depth, md, s1)
    IN  IF depth > md THEN Fail(st, DepthExceeded)
        ELSE IF v.k = "ptr" /\ v.n = 0 /\ ~Settable(loc) THEN st
        ELSE IF Get(s1.h, rec).k # "struct" THEN s1
        ELSE IF s2.err # "nil" THEN s2
        ELSE IF ~rec.na /\ Implements(Get(s2.h, rec).t)
        THEN fillFromDefaults(rec, Defaults(Get(s2.h, rec).t), s2)
        ELSE s2

\* fillDefaults(v, maxDepth): reflect.ValueOf(v) is neither addressable nor
\* settable; a record passed by value is held in a temporary
fillDefaults(v, md, h) ==
    IF v.k = "ptr" /\ v.n = 0 THEN Outcome(h, {}, <<>>, "nil")
    ELSE IF v.k = "ptr"
    THEN fillDefaultsRecursive(LocElem(Loc(0, <<>>, FALSE, TRUE), v), 0, md,
                               Outcome(h, {}, <<>>, "nil"))
    ELSE LET tmp == Alloc(h)
             o == fillDefaultsRecursive(Loc(tmp, <<1>>, FALSE, TRUE), 0, md,
                                        Outcome([h EXCEPT ![tmp] = VarCell(v)], {}, <<>>, "nil"))
         IN  [o EXCEPT !.h[tmp] = FreeCell]

\* the configurations handed to fillDefaults
FillInputs == InputsS \cup InputsC \cup InputsN \cup InputsL

FillInit ==
    \E in \in FillInputs :
        /\ heap = HeapOf(in.cells)
        /\ root = in.root
        /\ defaults = NoDefaults
        /\ err = "none"
        /\ calls = 0
        /\ source = DataSource("data", "ok")
        /\ transform = "nil"
        /\ validate = "nil"
        /\ trace = <<>>
        /\ result = NoResult
        /\ other = NoOther
        /\ limit = 0
        /\ pre = Before(HeapOf(in.cells), NoDefaults, "none")

\* one call fillDefaults(config, md)
FillDefaults(md) ==
    /\ calls < MaxCalls
    /\ \E o \in {fillDefaults(root, md, heap)} :
           /\ heap' = o.h
           /\ err' = o.err
    /\ limit' = md
    /\ pre' = Before(heap, defaults, err)
    /\ calls' = calls + 1
    /\ UNCHANGED <<defaults, root, source, transform, validate, trace, result, other>>

FillNext == \E md \in 0..maxDepth : FillDefaults(md)

FillSpec == FillInit /\ [][FillNext]_vars

RECURSIVE Deepest(_, _, _, _)
\* the depth of the deepest record of a value at depth d: a record, a reference
\* and the element of a sequence lie one level below the record that holds
\* them; a nil reference counts for the one record it can point to
Deepest(h, val, d, fuel) ==
    LET Max(xs) == CHOOSE x \in xs : \A y \in xs : y <= x
        below(x) ==
            CASE x.k = "struct" -> Deepest(h, x, d + 1, fuel - 1)
              [] x.k = "ptr" -> IF x.n = 0 THEN d + 1
                                ELSE Deepest(h, h[x.n].v[1], d + 1, fuel - 1)
              [] x.k = "slice" ->
                    IF x.n = 0 THEN d
                    ELSE Max({d} \cup { Deepest(h, h[x.n].v[j], d + 1, fuel - 1) :
                                          j \in 1..Len(h[x.n].v) })
              [] OTHER -> d
    IN  IF fuel = 0 \/ val.k # "struct" THEN d
        ELSE Max({d} \cup { below(val.f[i]) : i \in 1..Len(val.f) })

\* the nesting depth of the configuration in heap h
Nesting(h) == Deepest(h, RootVal(h), 0, MaxAddr)

\* C27 (depth guard of fillDefaults): on a finite acyclic configuration,
\* fillDefaults(config, limit) returns the depth error exactly when the
\* configuration nests deeper than limit levels, and no error otherwise; a
\* record of a self-referential type with a nil reference is one such input.
C27_DepthGuard ==
    (calls >= 1 /\ ValidRoot /\ ~HasCycle(pre.h, root)) =>
        /\ err \in {"nil", DepthExceeded}
        /\ err = DepthExceeded <=> Nesting(pre.h) > limit

\* C28 (Build works on a copy of a preloaded value): after a Build of a
\* Processor made by FromStruct(p), successful or failed, the reference
\* returned is not p, and the record p points to and every cell reachable from
\* it hold what they held before the Build.
C28_BuildOnCopy ==
    (calls >= 1 /\ source = DataSource("data", "ok")) =>
        /\ result.ref # root.n
        /\ \A a \in ReachCfg(pre.h, root) : heap[a] = pre.h[a]

\* C29 (a missing source is an error): a Build of a Processor made with a nil
\* preloaded value, a nil loader function or a nil provider returns a nil
\* reference and the error "no data source provided" of the load stage; only
\* load ran, applyDefaults was not called and nothing in memory changed.
C29_MissingSource ==
    (calls >= 1 /\ source.arg = "nil") =>
        /\ result = Returned(0, <<"load", "no data source provided">>)
        /\ StagesRun = <<"load">>
        /\ err = "none"
        /\ heap = pre.h

\* a Processor made with a nil provider, with a default, a transformer and a
\* validator set: Build returned the load error
C29_Witness ==
    /\ calls = 1
    /\ source = DataSource("provider", "nil")
    /\ Registered(defaults) > 0 /\ transform # "nil" /\ validate # "nil"
    /\ result = Returned(0, <<"load", "no data source provided">>)
    /\ StagesRun = <<"load">>

RECURSIVE DeepEqual(_, _, _, _, _)
\* reflect.DeepEqual of a value in heap h1 and a value in heap h2: records by
\* field, references by what they point to, sequences by element, maps by key
DeepEqual(h1, v1, h2, v2, fuel) ==
    IF fuel = 0 THEN TRUE
    ELSE IF v1.k # v2.k \/ v1.t # v2.t THEN FALSE
    ELSE CASE v1.k \in {"struct", "iface"} ->
                /\ Len(v1.f) = Len(v2.f)
                /\ \A i \in 1..Len(v1.f) : DeepEqual(h1, v1.f[i], h2, v2.f[i], fuel - 1)
           [] v1.k = "ptr" ->
                /\ (v1.n = 0) = (v2.n = 0)
                /\ v1.n # 0 => DeepEqual(h1, h1[v1.n].v[1], h2, h2[v2.n].v[1], fuel - 1)
           [] v1.k = "slice" ->
                /\ (v1.n = 0) = (v2.n = 0)
                /\ v1.n # 0 =>
                      /\ Len(h1[v1.n].v) = Len(h2[v2.n].v)
                      /\ \A j \in 1..Len(h1[v1.n].v) :
                            DeepEqual(h1, h1[v1.n].v[j], h2, h2[v2.n].v[j], fuel - 1)
           [] v1.k = "map" ->
                /\ (v1.n = 0) = (v2.n = 0)
                /\ v1.n # 0 =>
                      \A x \in Keys :
                          /\ (h1[v1.n].m[x] = <<>>) = (h2[v2.n].m[x] = <<>>)
                          /\ h1[v1.n].m[x] # <<>> =>
                                DeepEqual(h1, h1[v1.n].m[x][1], h2, h2[v2.n].m[x][1], fuel - 1)
           [] OTHER -> v1.n = v2.n

\* C30 (Build is repeatable): two Builds in succession on one Processor with no
\* transformer return the same error, and when they return values the second
\* value is deeply equal to the first as the first Build returned it.
C30_BuildRepeatable ==
    (calls = 2 /\ transform = "nil") =>
        /\ result.err = pre.res.err
        /\ (result.ref = 0) = (pre.res.ref = 0)
        /\ result.ref # 0 =>
              DeepEqual(pre.h, pre.h[pre.res.ref].v[1], heap, heap[result.ref].v[1], MaxAddr)

====
